---- MODULE Spec2Model ----
(***************************************************************************)
(* Model of the anomaly-tagging subsystem of PD20-WebApp:                  *)
(*   backend/processData.py          the batch tagger (a script)           *)
(*   backend/populate_and_process.py the continuous generate+tag loop      *)
(*   backend/populate_db.py,                                               *)
(*   backend/populateSelect.py       the seeders (insert untagged docs)    *)
(* The sensorReadings collection is the variable store: a sequence of      *)
(* documents, a document's _id being its position.  A document is a        *)
(* record whose DOMAIN is the set of fields it has, so that a missing      *)
(* field ($exists: False) is a missing key, not a default value.           *)
(* Sensor values are kept in hundredths (6.5 is 650): the generators round *)
(* to two decimals and the thresholds have at most one.                    *)
(***************************************************************************)
EXTENDS Integers, Sequences, FiniteSets, TLC

VARIABLES
    store,               \* sensorReadings: Seq of documents, _id = index
    createdBy,           \* history: who inserted document i ("seed" | "loop")
    updates,             \* history: update operations applied to document i
    seeded,              \* number of documents the seeders inserted so far
    pc,                  \* driver p: "idle" | "fetch" | "write" | "done"
    run,                 \* driver p: number of runs of the script started
    documents,           \* driver p: _ids of the batch fetched last (documents)
    bulk_operations,     \* driver p: the UpdateOne operations of the batch
    opIdx,               \* driver p: operations of bulk_write already applied
    modified,            \* driver p: modified_count of the running bulk_write
    documents_processed, \* driver p: the counter printed at the end
    failed,              \* driver p: an exception reached the except clause
    exit_status,         \* driver p: exit status of the script's last run
    untaggedAtStart,     \* history: untagged documents when the run started
    lpc,                 \* loop: "while" | "build" | "insert" | "sleep" | "slice" | "stopped"
    running,             \* loop: the flag the signal handler clears
    batch,               \* loop: the tick's batch
    insIdx,              \* loop: documents of insert_many already written
    slice,               \* loop: iterations of the sleep loop done
    ticks,               \* loop: ticks started (also the tick's timestamp)
    connOpen,            \* loop: the MongoClient is open
    sigSeen,             \* history: a stop signal was delivered
    ticksAfterSignal,    \* history: ticks whose insert_many ended after the signal
    slicesAfterSignal,   \* history: sleep slices that ended after the signal
    sensor_data,         \* evaluator: the argument of check_for_anomaly
    anomalies,           \* evaluator: its result
    epc,                 \* evaluator: "call" | "returned"
    inline_anomalies,    \* inline evaluator of the loop: its result
    ipc,                 \* inline evaluator: "call" | "returned"
    request,             \* API: the parameters of the call and the clock it read
    filter_query,        \* API: the timestamp filter the handler built
    response,            \* API: status and body of the answer
    apc                  \* API: "idle" | "returned"

storeVars == <<store, createdBy, updates, seeded>>
driverVars == <<pc, run, documents, bulk_operations, opIdx, modified,
                documents_processed, failed, exit_status, untaggedAtStart>>
loopVars == <<lpc, running, batch, insIdx, slice, ticks, connOpen, sigSeen,
              ticksAfterSignal, slicesAfterSignal>>
evalVars == <<sensor_data, anomalies, epc, inline_anomalies, ipc>>
apiVars == <<request, filter_query, response, apc>>
vars == <<storeVars, driverVars, loopVars, evalVars, apiVars>>

----------------------------------------------------------------------------
(* Bounds of the model *)

MaxSeeded == 2      \* documents the seeders insert (SpecBatch)
MaxSysSeeded == 1   \* documents the seeders insert (Spec)
MaxTicks == 1       \* ticks of the continuous loop (Spec)
MaxLoopTicks == 2   \* ticks of the continuous loop (SpecLoop)
MaxRuns == 2        \* runs of the batch script, one after the other (SpecSolo)
MaxInitDocs == 4    \* documents of an initial collection (SpecSolo)
MaxDataLen == 2     \* keys of a sensorData mapping given to the evaluator
MaxWindowDocs == 2  \* readings of a collection queried by time (SpecWindow)
MaxReadingDocs == 3 \* readings of a collection queried by sensor (SpecReadings)
MaxPivotDocs == 3   \* readings of a collection pivoted by timestamp (SpecPivot)
MaxAnomalyDocs == 3 \* readings of a collection queried for anomalies (SpecAnomalies)

Drivers == {1, 2}   \* processData.py processes that may run at the same time

\* batch_size = 500 in the script, scaled down so that a run of the model
\* fetches full, short and empty batches.
batch_size == 2

\* int(sleep_seconds * 10) for the interval given on the command line
\* (default 5.0, i.e. 50 slices of 0.1 s).
sleep_slices == 2

----------------------------------------------------------------------------
(* Values of a sensorData mapping *)

None == [kind |-> "none", num |-> 0, text |-> ""]
Float(n) == [kind |-> "float", num |-> n, text |-> ""]
Str(s) == [kind |-> "str", num |-> 0, text |-> s]

\* float(s) for the strings of the model: the ones Python parses, in hundredths.
ParsedStrings == [t \in {"9.5", "7.0", "6.49"} |->
                    CASE t = "9.5" -> 950 [] t = "7.0" -> 700 [] t = "6.49" -> 649]

\* float(value): ok is FALSE where Python raises (ValueError for a string that
\* is no number; None is filtered before the call).
ToFloat(value) ==
    CASE value.kind = "float" -> [ok |-> TRUE, num |-> value.num]
      [] value.kind = "str" ->
            IF value.text \in DOMAIN ParsedStrings
            THEN [ok |-> TRUE, num |-> ParsedStrings[value.text]]
            ELSE [ok |-> FALSE, num |-> 0]
      [] OTHER -> [ok |-> FALSE, num |-> 0]

THRESHOLDS ==
    [k \in {"flowRate", "waterLevel", "pH", "turbidity", "temperature"} |->
        CASE k = "flowRate" -> [min |-> 5000, max |-> 30000]
          [] k = "waterLevel" -> [min |-> 20, max |-> 500]
          [] k = "pH" -> [min |-> 650, max |-> 800]
          [] k = "turbidity" -> [min |-> 0, max |-> 1000]
          [] k = "temperature" -> [min |-> 500, max |-> 3500]]

\* rule.get(f): defined is FALSE for Python's None.
RuleGet(rule, f) ==
    IF f \in DOMAIN rule THEN [defined |-> TRUE, num |-> rule[f]]
    ELSE [defined |-> FALSE, num |-> 0]

BelowMinInclusive(min_val, numeric_value) ==
    min_val.defined /\ numeric_value <= min_val.num

\* min_val is not None and numeric_value < min_val
BelowMin(min_val, numeric_value) ==
    min_val.defined /\ numeric_value < min_val.num

\* max_val is not None and numeric_value > max_val
AboveMax(max_val, numeric_value) ==
    max_val.defined /\ numeric_value > max_val.num

\* One iteration of the for loop of check_for_anomaly: the list after the
\* item (sensor_key, value).
CheckItem(acc, sensor_key, value) ==
    IF sensor_key \notin DOMAIN THRESHOLDS THEN acc
    ELSE LET rule == THRESHOLDS[sensor_key]
             min_val == RuleGet(rule, "min")
             max_val == RuleGet(rule, "max")
             f == ToFloat(value)
         IN  IF value = None THEN acc
             ELSE IF ~f.ok THEN acc
             ELSE IF BelowMin(min_val, f.num) THEN Append(acc, sensor_key)
             ELSE IF AboveMax(max_val, f.num) THEN Append(acc, sensor_key)
             ELSE acc

RECURSIVE CheckFrom(_, _, _)
CheckFrom(sd, i, acc) ==
    IF i > Len(sd) THEN acc
    ELSE CheckFrom(sd, i + 1, CheckItem(acc, sd[i].k, sd[i].v))

\* check_for_anomaly(sensor_data): sensor_data is the dict as the sequence of
\* its items, in insertion order.
check_for_anomaly(sd) == CheckFrom(sd, 1, <<>>)

----------------------------------------------------------------------------
(* The evaluator of populate_and_process.py: its own THRESHOLDS table and   *)
(* its own check_for_anomaly, which the continuous loop calls inline.       *)

loop_THRESHOLDS_stale ==
    [k \in {"flowRate", "waterLevel", "pH", "turbidity", "temperature"} |->
        CASE k = "flowRate" -> [min |-> 5000, max |-> 30000]
          [] k = "waterLevel" -> [min |-> 20, max |-> 500]
          [] k = "pH" -> [min |-> 600, max |-> 850]
          [] k = "turbidity" -> [min |-> 0, max |-> 1000]
          [] k = "temperature" -> [min |-> 500, max |-> 3500]]

\* THRESHOLDS of populate_and_process.py, in hundredths
loop_THRESHOLDS ==
    [k \in {"flowRate", "waterLevel", "pH", "turbidity", "temperature"} |->
        CASE k = "flowRate" -> [min |-> 5000, max |-> 30000]
          [] k = "waterLevel" -> [min |-> 20, max |-> 500]
          [] k = "pH" -> [min |-> 650, max |-> 800]
          [] k = "turbidity" -> [min |-> 0, max |-> 1000]
          [] k = "temperature" -> [min |-> 500, max |-> 3500]]

\* One iteration of the for loop of its check_for_anomaly; a value float()
\* rejects is skipped without a message.
loop_CheckItem(acc, sensor_key, value) ==
    IF sensor_key \in DOMAIN loop_THRESHOLDS
    THEN LET rule == loop_THRESHOLDS[sensor_key]
             min_val == RuleGet(rule, "min")
             max_val == RuleGet(rule, "max")
         IN  IF value = None THEN acc
             ELSE IF ~ToFloat(value).ok THEN acc
             ELSE LET numeric_value == ToFloat(value).num
                  IN  IF min_val.defined /\ numeric_value < min_val.num
                      THEN Append(acc, sensor_key)
                      ELSE IF max_val.defined /\ numeric_value > max_val.num
                      THEN Append(acc, sensor_key)
                      ELSE acc
    ELSE acc

RECURSIVE loop_CheckFrom(_, _, _)
loop_CheckFrom(sd, i, acc) ==
    IF i > Len(sd) THEN acc
    ELSE loop_CheckFrom(sd, i + 1, loop_CheckItem(acc, sd[i].k, sd[i].v))

\* check_for_anomaly(sensor_data) of populate_and_process.py
loop_check_for_anomaly(sd) == loop_CheckFrom(sd, 1, <<>>)

----------------------------------------------------------------------------
(* The store *)

Ids == 1..Len(store)

HasField(doc, f) == f \in DOMAIN doc

\* query = {"anomaly": {"$exists": False}}
Query(doc) == ~HasField(doc, "anomaly")

Untagged == {i \in Ids : Query(store[i])}

ApplyReplace(doc, fields) == fields

\* {"$set": fields} applied to a document
ApplySet(doc, fields) ==
    [f \in DOMAIN doc \cup DOMAIN fields |->
        IF f \in DOMAIN fields THEN fields[f] ELSE doc[f]]

\* doc.get("sensorData", {})
GetSensorData(doc) == IF HasField(doc, "sensorData") THEN doc.sensorData ELSE <<>>

UpdateFieldsListOnly(anoms) ==
    [anomalies |-> anoms]

UpdateFieldsFlagZero(anoms) ==
    [anomalies |-> anoms, anomaly |-> 0]

\* update_fields of the batch driver
UpdateFields(anoms) ==
    [anomalies |-> anoms, anomaly |-> IF Len(anoms) > 0 THEN 1 ELSE 0]

\* pymongo.UpdateOne({"_id": doc["_id"]}, {"$set": update_fields})
UpdateOne(id) ==
    [_id |-> id, set |-> UpdateFields(check_for_anomaly(GetSensorData(store[id])))]

\* The subsets of S that find(query).limit(n) may return: n documents of S,
\* or all of S when it has fewer (no sort is given, so the store picks).
Limit(S, n) ==
    IF Cardinality(S) <= n THEN {S}
    ELSE {T \in SUBSET S : Cardinality(T) = n}

RECURSIVE SetToSeq(_)
SetToSeq(S) ==
    IF S = {} THEN <<>>
    ELSE LET m == CHOOSE x \in S : \A y \in S : x <= y
         IN  <<m>> \o SetToSeq(S \ {m})

LastBatchInclusive(docs) == Len(docs) <= batch_size

\* len(documents) < batch_size
LastBatch(docs) == Len(docs) < batch_size

----------------------------------------------------------------------------
(* The seeders: populate_db.py and populateSelect.py insert readings that    *)
(* carry neither anomalies nor anomaly.                                      *)

Item(key, value) == [k |-> key, v |-> value]

\* sensorData mappings the seeders write: one inside its ranges, one with
\* pH above its maximum.
SeedData ==
    { <<Item("pH", Float(700))>>,
      <<Item("pH", Float(950)), Item("temperature", Float(2200))>> }

\* The reading generate_sensor_reading / build_readings builds.
SeedDoc(node_id, ts, sd) ==
    [nodeId |-> node_id, timestamp |-> ts, sensorData |-> sd]

SeederInsert ==
    /\ \E sd \in SeedData :
          store' = Append(store, SeedDoc("node-001", ticks, sd))
    /\ createdBy' = Append(createdBy, "seed")
    /\ updates' = Append(updates, 0)
    /\ seeded' = seeded + 1
    /\ UNCHANGED <<driverVars, loopVars, evalVars, apiVars>>

----------------------------------------------------------------------------
(* The batch driver: the script processData.py, one process per driver p.    *)

\* The script starts: the connection and the ping succeed, the counters are
\* set and the loop is entered.
DriverStart(p) ==
    /\ pc[p] \in {"idle", "done"}
    /\ pc' = [pc EXCEPT ![p] = "fetch"]
    /\ run' = [run EXCEPT ![p] = @ + 1]
    /\ documents' = [documents EXCEPT ![p] = <<>>]
    /\ bulk_operations' = [bulk_operations EXCEPT ![p] = <<>>]
    /\ opIdx' = [opIdx EXCEPT ![p] = 0]
    /\ modified' = [modified EXCEPT ![p] = 0]
    /\ documents_processed' = [documents_processed EXCEPT ![p] = 0]
    /\ failed' = [failed EXCEPT ![p] = FALSE]
    /\ untaggedAtStart' = [untaggedAtStart EXCEPT ![p] = Cardinality(Untagged)]
    /\ UNCHANGED <<exit_status, storeVars, loopVars, evalVars, apiVars>>

\* The connection or the ping fails: exit(1) before the loop.
ConnectFail(p) ==
    /\ pc[p] \in {"idle", "done"}
    /\ pc' = [pc EXCEPT ![p] = "done"]
    /\ run' = [run EXCEPT ![p] = @ + 1]
    /\ documents' = [documents EXCEPT ![p] = <<>>]
    /\ bulk_operations' = [bulk_operations EXCEPT ![p] = <<>>]
    /\ opIdx' = [opIdx EXCEPT ![p] = 0]
    /\ modified' = [modified EXCEPT ![p] = 0]
    /\ documents_processed' = [documents_processed EXCEPT ![p] = 0]
    /\ failed' = [failed EXCEPT ![p] = FALSE]
    /\ exit_status' = [exit_status EXCEPT ![p] = 1]
    /\ untaggedAtStart' = [untaggedAtStart EXCEPT ![p] = Cardinality(Untagged)]
    /\ UNCHANGED <<storeVars, loopVars, evalVars, apiVars>>

\* find(query).limit(batch_size), list(cursor), and the operations built from
\* the fetched documents; an empty batch leaves the loop and ends the script.
Fetch(p) ==
    /\ pc[p] = "fetch"
    /\ \E T \in Limit(Untagged, batch_size) :
          LET docs == SetToSeq(T) IN
          /\ documents' = [documents EXCEPT ![p] = docs]
          /\ IF docs = <<>>
             THEN /\ pc' = [pc EXCEPT ![p] = "done"]
                  /\ exit_status' = [exit_status EXCEPT ![p] = 0]
                  /\ UNCHANGED <<bulk_operations, opIdx, modified>>
             ELSE /\ pc' = [pc EXCEPT ![p] = "write"]
                  /\ bulk_operations' = [bulk_operations EXCEPT ![p] =
                        [i \in 1..Len(docs) |-> UpdateOne(docs[i])]]
                  /\ opIdx' = [opIdx EXCEPT ![p] = 0]
                  /\ modified' = [modified EXCEPT ![p] = 0]
                  /\ UNCHANGED exit_status
    /\ UNCHANGED <<run, documents_processed, failed, untaggedAtStart,
                   storeVars, loopVars, evalVars, apiVars>>

\* The exception of a failed find: caught by the except clause, which prints
\* it; the finally clause closes the client and the script ends normally.
FetchFail(p) ==
    /\ pc[p] = "fetch"
    /\ pc' = [pc EXCEPT ![p] = "done"]
    /\ failed' = [failed EXCEPT ![p] = TRUE]
    /\ exit_status' = [exit_status EXCEPT ![p] = 0]
    /\ UNCHANGED <<run, documents, bulk_operations, opIdx, modified,
                   documents_processed, untaggedAtStart,
                   storeVars, loopVars, evalVars, apiVars>>

\* bulk_write applies its operations in order, each one atomically on its
\* document (matched by _id alone); the step of the last operation also
\* returns: modified_count is added and the size of the batch decides whether
\* the loop goes on.  modified_count counts the documents $set changed.
BulkWriteOne(p) ==
    /\ pc[p] = "write"
    /\ opIdx[p] < Len(bulk_operations[p])
    /\ LET op == bulk_operations[p][opIdx[p] + 1]
           old == store[op._id]
           new == ApplySet(old, op.set)
           n == IF new = old THEN 0 ELSE 1
           last == opIdx[p] + 1 = Len(bulk_operations[p])
       IN  /\ store' = [store EXCEPT ![op._id] = new]
           /\ updates' = [updates EXCEPT ![op._id] = @ + 1]
           /\ opIdx' = [opIdx EXCEPT ![p] = @ + 1]
           /\ modified' = [modified EXCEPT ![p] = @ + n]
           /\ IF last
              THEN /\ documents_processed' =
                        [documents_processed EXCEPT ![p] = @ + modified[p] + n]
                   /\ IF LastBatch(documents[p])
                      THEN /\ pc' = [pc EXCEPT ![p] = "done"]
                           /\ exit_status' = [exit_status EXCEPT ![p] = 0]
                      ELSE /\ pc' = [pc EXCEPT ![p] = "fetch"]
                           /\ UNCHANGED exit_status
              ELSE UNCHANGED <<documents_processed, pc, exit_status>>
    /\ UNCHANGED <<run, documents, bulk_operations, failed, untaggedAtStart,
                   createdBy, seeded, loopVars, evalVars, apiVars>>

\* bulk_write raises before its last operation: the operations applied so far
\* stay, modified_count is lost, and the except clause ends the script as in
\* FetchFail.
BulkWriteFail(p) ==
    /\ pc[p] = "write"
    /\ pc' = [pc EXCEPT ![p] = "done"]
    /\ failed' = [failed EXCEPT ![p] = TRUE]
    /\ exit_status' = [exit_status EXCEPT ![p] = 0]
    /\ UNCHANGED <<run, documents, bulk_operations, opIdx, modified,
                   documents_processed, untaggedAtStart,
                   storeVars, loopVars, evalVars, apiVars>>

----------------------------------------------------------------------------
(* The continuous loop: run_continuous of populate_and_process.py, from the  *)
(* installation of the signal handlers on.                                   *)

\* targets: the nodes collection as read with --nodesFromDb.  The registry of
\* the model holds a node with one sensor and a node whose only sensor has no
\* threshold rule.
targets ==
    << [_id |-> "node-A", sensors |-> <<"pH">>],
       [_id |-> "node-B", sensors |-> <<"humidity">>] >>

\* normal_value(k): the draw random.gauss(mean, span), at its mean.
normal_value(k) ==
    LET low == loop_THRESHOLDS[k].min
        high == loop_THRESHOLDS[k].max
    IN  {(low + high) \div 2}

\* anomalous_value(k): below low or above high, the magnitude
\* random.uniform(0.5, ...) at its lower end.
anomalous_value(k) ==
    LET low == loop_THRESHOLDS[k].min
        high == loop_THRESHOLDS[k].max
    IN  {low - 50, high + 50}

\* The sensor_data mappings the inner for loop can build from sensors[i..]:
\* a key without a rule is skipped, random.random() < anomaly_rate picks the
\* generator of every other key.
RECURSIVE GenFrom(_, _)
GenFrom(sensors, i) ==
    IF i > Len(sensors) THEN {<<>>}
    ELSE LET rest == GenFrom(sensors, i + 1)
             k == sensors[i]
         IN  IF k \notin DOMAIN loop_THRESHOLDS THEN rest
             ELSE {<<Item(k, Float(x))>> \o r :
                      x \in anomalous_value(k) \cup normal_value(k), r \in rest}

LoopDocUntagged(node_id, ts, sd) ==
    [nodeId |-> node_id, timestamp |-> ts, sensorData |-> sd]

\* doc of run_continuous: the reading with its anomaly fields
LoopDoc(node_id, ts, sd) ==
    LET anoms == loop_check_for_anomaly(sd)
    IN  [nodeId |-> node_id, timestamp |-> ts, sensorData |-> sd,
         anomalies |-> anoms, anomaly |-> IF Len(anoms) > 0 THEN 1 ELSE 0]

\* The batches a tick at time ts can build: one doc per target, in order.
Batches(ts) ==
    LET DocsFor(t) == {LoopDoc(t._id, ts, sd) : sd \in GenFrom(t.sensors, 1)}
        All == UNION {DocsFor(targets[i]) : i \in 1..Len(targets)}
    IN  {b \in [1..Len(targets) -> All] :
            \A i \in 1..Len(targets) : b[i] \in DocsFor(targets[i])}

\* _signal_handler: SIGINT or SIGTERM while the loop runs
Signal ==
    /\ lpc # "stopped"
    /\ running' = FALSE
    /\ sigSeen' = TRUE
    /\ UNCHANGED <<lpc, batch, insIdx, slice, ticks, connOpen, ticksAfterSignal,
                   slicesAfterSignal, storeVars, driverVars, evalVars, apiVars>>

\* while running: a new tick starts, or the loop is left, the client closed
\* and "Stopped." printed.
LoopTest ==
    /\ lpc = "while"
    /\ IF running
       THEN /\ lpc' = "build"
            /\ ticks' = ticks + 1
            /\ UNCHANGED connOpen
       ELSE /\ lpc' = "stopped"
            /\ connOpen' = FALSE
            /\ UNCHANGED ticks
    /\ UNCHANGED <<running, batch, insIdx, slice, sigSeen, ticksAfterSignal,
                   slicesAfterSignal, storeVars, driverVars, evalVars, apiVars>>

\* The for loop over targets builds the batch of the tick.
Build ==
    /\ lpc = "build"
    /\ \E b \in Batches(ticks) : batch' = b
    /\ insIdx' = 0
    /\ lpc' = "insert"
    /\ UNCHANGED <<running, slice, ticks, connOpen, sigSeen, ticksAfterSignal,
                   slicesAfterSignal, storeVars, driverVars, evalVars, apiVars>>

AfterSignal == IF sigSeen THEN 1 ELSE 0

\* insert_many(batch) is an ordered bulk insert: the documents are written
\* one after the other; the step of the last one returns to the sleep loop.
InsertOne ==
    /\ lpc = "insert"
    /\ insIdx < Len(batch)
    /\ store' = Append(store, batch[insIdx + 1])
    /\ createdBy' = Append(createdBy, "loop")
    /\ updates' = Append(updates, 0)
    /\ insIdx' = insIdx + 1
    /\ IF insIdx + 1 = Len(batch)
       THEN /\ lpc' = "sleep"
            /\ slice' = 0
            /\ ticksAfterSignal' = ticksAfterSignal + AfterSignal
       ELSE UNCHANGED <<lpc, slice, ticksAfterSignal>>
    /\ UNCHANGED <<running, batch, ticks, connOpen, sigSeen, slicesAfterSignal,
                   seeded, driverVars, evalVars, apiVars>>

\* insert_many raises (BulkWriteError, a lost connection): the documents
\* written before the error stay in the collection, the except clause prints
\* the error and the loop goes on to sleep.
InsertFail ==
    /\ lpc = "insert"
    /\ lpc' = "sleep"
    /\ slice' = 0
    /\ ticksAfterSignal' = ticksAfterSignal + AfterSignal
    /\ UNCHANGED <<running, batch, insIdx, ticks, connOpen, sigSeen,
                   slicesAfterSignal, storeVars, driverVars, evalVars, apiVars>>

SleepNeverInterrupted == FALSE

\* if not running: break
SleepInterrupted == ~running

\* One iteration of for _ in range(int(sleep_seconds * 10)), up to the call
\* of time.sleep; the range may be exhausted.
SleepCheck ==
    /\ lpc = "sleep"
    /\ lpc' = IF slice = sleep_slices \/ SleepInterrupted THEN "while" ELSE "slice"
    /\ UNCHANGED <<running, batch, insIdx, slice, ticks, connOpen, sigSeen,
                   ticksAfterSignal, slicesAfterSignal,
                   storeVars, driverVars, evalVars, apiVars>>

\* time.sleep(0.1) returns; a signal handled meanwhile does not shorten it.
SleepSlice ==
    /\ lpc = "slice"
    /\ lpc' = "sleep"
    /\ slice' = slice + 1
    /\ slicesAfterSignal' = slicesAfterSignal + AfterSignal
    /\ UNCHANGED <<running, batch, insIdx, ticks, connOpen, sigSeen,
                   ticksAfterSignal, storeVars, driverVars, evalVars, apiVars>>

----------------------------------------------------------------------------
(* The evaluator alone *)

EvalKeys == {"pH", "temperature", "humidity"}

EvalValues ==
    {None, Str("abc"), Str("9.5"), Str("7.0"), Float(499), Float(500),
     Float(649), Float(650), Float(800), Float(801), Float(3500), Float(3501)}

\* The dicts of at most MaxDataLen items: sequences without a repeated key.
EvalInputs ==
    LET Items == {Item(k, v) : k \in EvalKeys, v \in EvalValues}
        Seqs == UNION {[1..n -> Items] : n \in 0..MaxDataLen}
    IN  {sd \in Seqs : \A i, j \in 1..Len(sd) : i # j => sd[i].k # sd[j].k}

Evaluate ==
    /\ epc = "call"
    /\ anomalies' = check_for_anomaly(sensor_data)
    /\ epc' = "returned"
    /\ UNCHANGED <<sensor_data, inline_anomalies, ipc,
                   storeVars, driverVars, loopVars, apiVars>>

\* A call of the loop's evaluator.
EvaluateInline ==
    /\ ipc = "call"
    /\ inline_anomalies' = loop_check_for_anomaly(sensor_data)
    /\ ipc' = "returned"
    /\ UNCHANGED <<sensor_data, anomalies, epc,
                   storeVars, driverVars, loopVars, apiVars>>

----------------------------------------------------------------------------
(* Timestamps of the query path (main.py).  A timestamp of the collection   *)
(* is a native datetime or an ISO-8601 string.  A datetime is a number of   *)
(* seconds since 2024-01-01T00:00:00 (all instants of the model lie in      *)
(* January 2024) and a number of microseconds; a string is the sequence of  *)
(* its characters.                                                          *)

Datetime(s, u) ==
    [kind |-> "datetime", sec |-> s, us |-> u, tz |-> FALSE, chars |-> <<>>]

IsoString(c) ==
    [kind |-> "str", sec |-> 0, us |-> 0, tz |-> FALSE, chars |-> c]

\* isinstance(ts, str)
IsStr(ts) == ts.kind = "str"

Digit == <<"0", "1", "2", "3", "4", "5", "6", "7", "8", "9">>

\* ord(c) of the characters of a timestamp string
Ord ==
    [c \in {"+", "-", ".", ":", "T", "Z"} \cup {Digit[i] : i \in 1..10} |->
        CASE c = "+" -> 43 [] c = "-" -> 45 [] c = "." -> 46 [] c = ":" -> 58
          [] c = "T" -> 84 [] c = "Z" -> 90
          [] OTHER -> 47 + (CHOOSE i \in 1..10 : Digit[i] = c)]

IsDigit(c) == \E i \in 1..10 : Digit[i] = c

\* int(c) of a digit
Val(c) == Ord[c] - 48

\* %d, %H, %M, %S: two digits, zero-padded
TwoDigits(n) == <<Digit[(n \div 10) + 1], Digit[(n % 10) + 1]>>

\* dt.strftime("%Y-%m-%dT%H:%M:%S"): the microseconds and the zone are dropped
strftime(dt) ==
    LET day == dt.sec \div 86400
        rem == dt.sec % 86400
    IN  <<"2", "0", "2", "4", "-", "0", "1", "-">> \o TwoDigits(day + 1)
        \o <<"T">> \o TwoDigits(rem \div 3600)
        \o <<":">> \o TwoDigits((rem % 3600) \div 60)
        \o <<":">> \o TwoDigits(rem % 60)

\* dt.strftime("%Y-%m-%dT%H:%M:%S.999999Z")
strftime_end(dt) == strftime(dt) \o <<".", "9", "9", "9", "9", "9", "9", "Z">>

\* ts.replace("Z", "+00:00")
RECURSIVE ReplaceZ(_)
ReplaceZ(c) ==
    IF c = <<>> THEN <<>>
    ELSE (IF Head(c) = "Z" THEN <<"+", "0", "0", ":", "0", "0">> ELSE <<Head(c)>>)
         \o ReplaceZ(Tail(c))

\* The value of the digits c[i..j] as the first digits of a six-digit
\* fraction of a second.
RECURSIVE FractionFrom(_, _, _, _)
FractionFrom(c, i, j, weight) ==
    IF i > j THEN 0
    ELSE Val(c[i]) * weight + FractionFrom(c, i + 1, j, weight \div 10)

\* datetime.fromisoformat(c) for the strings of the model: date and time to
\* the second, then an optional fraction of three or six digits, then an
\* optional offset +00:00.
fromisoformat(c) ==
    LET num(i) == 10 * Val(c[i]) + Val(c[i + 1])
        seconds == (num(9) - 1) * 86400 + num(12) * 3600 + num(15) * 60 + num(18)
        hasFrac == Len(c) >= 20 /\ c[20] = "."
        fracEnd == IF hasFrac
                   THEN CHOOSE j \in 20..Len(c) :
                           /\ \A k \in 21..j : IsDigit(c[k])
                           /\ j = Len(c) \/ ~IsDigit(c[j + 1])
                   ELSE 19
    IN  [kind |-> "datetime", sec |-> seconds,
         us |-> IF hasFrac THEN FractionFrom(c, 21, fracEnd, 100000) ELSE 0,
         tz |-> fracEnd < Len(c), chars |-> <<>>]

\* parse_timestamp(ts)
parse_timestamp(ts) ==
    IF IsStr(ts) THEN fromisoformat(ReplaceZ(ts.chars)) ELSE ts

\* dt - timedelta(seconds = n)
MinusSeconds(dt, n) == [dt EXCEPT !.sec = @ - n]

\* The timedelta of the if / elif chain on range_type.
RangeDeltaDefaultHour(range_type) ==
    CASE range_type = "10m" -> 600
      [] range_type = "30m" -> 1800
      [] range_type = "1h" -> 3600
      [] range_type = "6h" -> 21600
      [] range_type = "24h" -> 86400
      [] range_type = "7d" -> 604800
      [] OTHER -> 3600

RangeDelta(range_type) ==
    CASE range_type = "10m" -> 600
      [] range_type = "30m" -> 1800
      [] range_type = "1h" -> 3600
      [] range_type = "6h" -> 21600
      [] range_type = "24h" -> 86400
      [] range_type = "7d" -> 604800
      [] OTHER -> 600

\* get_time_range_filter(latest_ts_raw, range_type, use_current_time), utcnow
\* being the clock value datetime.utcnow() returns.
get_time_range_filter(latest_ts_raw, range_type, use_current_time, utcnow) ==
    LET latest_dt == parse_timestamp(latest_ts_raw)
        is_string_timestamp == IsStr(latest_ts_raw)
        ref_time == IF use_current_time THEN utcnow
                    ELSE [latest_dt EXCEPT !.tz = FALSE]
        start_dt == MinusSeconds(ref_time, RangeDelta(range_type))
    IN  IF is_string_timestamp
        THEN IF use_current_time
             THEN [gte |-> IsoString(strftime(start_dt)),
                   lte |-> IsoString(strftime_end(ref_time))]
             ELSE [gte |-> IsoString(strftime(start_dt)), lte |-> latest_ts_raw]
        ELSE IF use_current_time
             THEN [gte |-> start_dt, lte |-> ref_time]
             ELSE [gte |-> start_dt, lte |-> latest_dt]

----------------------------------------------------------------------------
(* The reading store as the query path of main.py sees it. *)

\* None for an Optional[datetime] parameter
NoneTime == [kind |-> "none", sec |-> 0, us |-> 0, tz |-> FALSE, chars |-> <<>>]

\* isinstance(x, datetime)
IsDatetime(x) == x.kind = "datetime"

\* a <= b for two strings: the store compares them character by character.
StrLeq(a, b) ==
    LET n == IF Len(a) < Len(b) THEN Len(a) ELSE Len(b)
        diff == {i \in 1..n : a[i] # b[i]}
    IN  IF diff = {} THEN Len(a) <= Len(b)
        ELSE LET i == CHOOSE k \in diff : \A m \in diff : k <= m
             IN  Ord[a[i]] < Ord[b[i]]

\* a <= b in the order of the store: strings before dates, strings character
\* by character, dates to the millisecond.
TsLeq(a, b) ==
    IF a.kind # b.kind THEN IsStr(a)
    ELSE IF IsStr(a) THEN StrLeq(a.chars, b.chars)
    ELSE a.sec < b.sec \/ (a.sec = b.sec /\ a.us \div 1000 <= b.us \div 1000)

\* {"$gte": ..., "$lte": ...} on a value: a bound of another type than the
\* value matches nothing.
MatchRange(v, cond) ==
    /\ "gte" \in DOMAIN cond => (v.kind = cond.gte.kind /\ TsLeq(cond.gte, v))
    /\ "lte" \in DOMAIN cond => (v.kind = cond.lte.kind /\ TsLeq(v, cond.lte))

\* find(filter_query): the documents a filter on nodeId and timestamp selects
MatchFilter(doc, fq) ==
    /\ "nodeId" \in DOMAIN fq => doc.nodeId = fq.nodeId
    /\ "timestamp" \in DOMAIN fq => MatchRange(doc.timestamp, fq.timestamp)

\* find_one({"nodeId": node_id})
NodeDocs(node_id) == {i \in Ids : store[i].nodeId = node_id}

\* find_one(..., sort = [("timestamp", -1)]) over the documents S
LatestTimestamp(S) ==
    LET i == CHOOSE k \in S :
                \A j \in S : TsLeq(store[j].timestamp, store[k].timestamp)
    IN  store[i].timestamp

\* to_list(2000), scaled down so that a window of the model can hold more
\* readings than one answer.
to_list_length == 2

\* .sort("timestamp", 1).to_list(to_list_length): the documents S in
\* ascending order of timestamp, equal timestamps in any order, cut to the
\* length of the list.
SortedToList(S) ==
    LET n == Cardinality(S)
        orders == {q \in [1..n -> S] :
                      /\ \A i, j \in 1..n : i # j => q[i] # q[j]
                      /\ \A i, j \in 1..n :
                            i < j => TsLeq(store[q[i]].timestamp, store[q[j]].timestamp)}
    IN  {SubSeq(q, 1, IF n < to_list_length THEN n ELSE to_list_length) : q \in orders}

\* sensor_data.get(key)
DictGet(sd, key) ==
    IF \E i \in 1..Len(sd) : sd[i].k = key
    THEN sd[CHOOSE i \in 1..Len(sd) : sd[i].k = key].v
    ELSE None

\* filter_query with its timestamp condition
WithTimestamp(node_id, cond) == [nodeId |-> node_id, timestamp |-> cond]

BuildFilterQueryRangeFirst(node_id, range, start_time, end_time, fromNow, utcnow) ==
    IF range # "all"
    THEN WithTimestamp(node_id,
            get_time_range_filter(LatestTimestamp(NodeDocs(node_id)), range,
                                  fromNow, utcnow))
    ELSE IF IsDatetime(start_time) /\ IsDatetime(end_time)
    THEN WithTimestamp(node_id, [gte |-> IsoString(strftime(start_time)),
                                 lte |-> IsoString(strftime_end(end_time))])
    ELSE [nodeId |-> node_id]

\* filter_query of get_node_readings for a node that has readings: the
\* if / elif chain on start_time and end_time, then the relative range.
BuildFilterQuery(node_id, range, start_time, end_time, fromNow, utcnow) ==
    IF IsDatetime(start_time) /\ IsDatetime(end_time)
    THEN WithTimestamp(node_id, [gte |-> IsoString(strftime(start_time)),
                                 lte |-> IsoString(strftime_end(end_time))])
    ELSE IF IsDatetime(start_time)
    THEN WithTimestamp(node_id, [gte |-> IsoString(strftime(start_time))])
    ELSE IF IsDatetime(end_time)
    THEN WithTimestamp(node_id, [lte |-> IsoString(strftime_end(end_time))])
    ELSE IF range # "all"
    THEN WithTimestamp(node_id,
            get_time_range_filter(LatestTimestamp(NodeDocs(node_id)), range,
                                  fromNow, utcnow))
    ELSE [nodeId |-> node_id]

\* sd of the loop over readings; sensor = "" stands for no sensor (None and
\* "" are both false in "if sensor").
ProjectedData(doc, sensor) ==
    IF sensor # ""
    THEN <<Item(sensor, DictGet(GetSensorData(doc), sensor))>>
    ELSE GetSensorData(doc)

DroppedWhenAbsentOnly(doc, sensor) ==
    LET sd == ProjectedData(doc, sensor)
    IN  \/ sensor # "" /\ ~(\E i \in 1..Len(GetSensorData(doc)) :
                                GetSensorData(doc)[i].k = sensor)
        \/ sd = <<>>

\* The three continue statements of the loop over readings.
Dropped(doc, sensor) ==
    LET sd == ProjectedData(doc, sensor)
    IN  \/ sensor # "" /\ ~(\E i \in 1..Len(sd) : sd[i].k = sensor)
        \/ sensor # "" /\ DictGet(sd, sensor) = None
        \/ sd = <<>>

\* sensorData: Dict[str, float] of the model SensorReading accepts numbers
\* and the strings float() parses, and no None.
ValidSensorData(sd) == \A i \in 1..Len(sd) : ToFloat(sd[i].v).ok

\* SensorReading(nodeId, timestamp, sensorData, anomaly, anomalies): the
\* values as the model's fields hold them; anomalies is None where the
\* record has no such field.
SensorReading(node_id, doc, sd) ==
    LET fields == [nodeId |-> node_id,
                   timestamp |-> parse_timestamp(doc.timestamp),
                   sensorData |-> [i \in 1..Len(sd) |->
                                      Item(sd[i].k, Float(ToFloat(sd[i].v).num))],
                   anomaly |-> IF HasField(doc, "anomaly") THEN doc.anomaly ELSE 0]
    IN  IF HasField(doc, "anomalies")
        THEN ApplySet(fields, [anomalies |-> doc.anomalies])
        ELSE fields

ProcessedReadingsNotFound(node_id, fq, readings, sensor) ==
    [status_code |-> IF \A k \in 1..Len(readings) : Dropped(store[readings[k]], sensor)
                     THEN 404 ELSE 200,
     filter_query |-> fq, fetched |-> readings,
     body |-> LET kept == SelectSeq(readings, LAMBDA i : ~Dropped(store[i], sensor))
              IN  [k \in 1..Len(kept) |->
                      SensorReading(node_id, store[kept[k]],
                                    ProjectedData(store[kept[k]], sensor))]]

\* The answer built from the fetched readings: the list of SensorReading, or
\* the ValidationError of one of them, which the framework answers with 500.
ProcessedReadings(node_id, fq, readings, sensor) ==
    LET kept == SelectSeq(readings, LAMBDA i : ~Dropped(store[i], sensor))
    IN  IF \A k \in 1..Len(kept) : ValidSensorData(ProjectedData(store[kept[k]], sensor))
        THEN [status_code |-> 200, filter_query |-> fq, fetched |-> readings,
              body |-> [k \in 1..Len(kept) |->
                          SensorReading(node_id, store[kept[k]],
                                        ProjectedData(store[kept[k]], sensor))]]
        ELSE [status_code |-> 500, filter_query |-> fq, fetched |-> readings,
              body |-> <<>>]

NodeMissingNever(node_id) == FALSE

\* not node_exists
NodeMissing(node_id) == NodeDocs(node_id) = {}

\* get_node_readings: the answers the handler can give (one for each order
\* the store may return equal timestamps in).
get_node_readings(node_id, range, sensor, start_time, end_time, fromNow, utcnow) ==
    IF NodeMissing(node_id)
    THEN {[status_code |-> 404, filter_query |-> <<>>, fetched |-> <<>>, body |-> <<>>]}
    ELSE IF NodeDocs(node_id) = {}
    THEN {[status_code |-> 200, filter_query |-> [nodeId |-> node_id],
           fetched |-> <<>>, body |-> <<>>]}
    ELSE LET fq == BuildFilterQuery(node_id, range, start_time, end_time,
                                    fromNow, utcnow)
             found == {i \in Ids : MatchFilter(store[i], fq)}
         IN  {ProcessedReadings(node_id, fq, readings, sensor) :
                 readings \in SortedToList(found)}

\* GET /api/nodes/{node_id}/readings
CallReadings(node_id, range, sensor, start_time, end_time, fromNow, utcnow) ==
    /\ apc = "idle"
    /\ request' = [endpoint |-> "get_node_readings", node_id |-> node_id,
                   range |-> range, sensor |-> sensor, start_time |-> start_time,
                   end_time |-> end_time, fromNow |-> fromNow, utcnow |-> utcnow]
    /\ \E answer \in get_node_readings(node_id, range, sensor, start_time,
                                       end_time, fromNow, utcnow) :
          /\ filter_query' = answer.filter_query
          /\ response' = [status_code |-> answer.status_code,
                          fetched |-> answer.fetched, body |-> answer.body]
    /\ apc' = "returned"
    /\ UNCHANGED <<storeVars, driverVars, loopVars, evalVars>>

\* x in seq
InList(x, seq) == \E i \in 1..Len(seq) : seq[i] = x

\* key in sd
HasKey(sd, key) == \E i \in 1..Len(sd) : sd[i].k = key

IsAnomalyReadingFlagFirst(r, sensor) ==
    IF r.anomaly # 0 THEN HasKey(r.sensorData, sensor)
    ELSE HasField(r, "anomalies") /\ InList(sensor, r.anomalies)

\* The if / elif of the loop over readings_list: the anomalies list when it
\* is there and not empty, the anomaly flag otherwise.
IsAnomalyReading(r, sensor) ==
    IF HasField(r, "anomalies") /\ r.anomalies # <<>>
    THEN InList(sensor, r.anomalies)
    ELSE r.anomaly # 0 /\ HasKey(r.sensorData, sensor)

\* get_node_anomalies: the answers of get_node_readings for the same node,
\* sensor and range with no start_time and no end_time, reduced to the
\* anomaly points; an HTTPException or an error of get_node_readings is the
\* answer of get_node_anomalies too.
get_node_anomalies(node_id, sensor, range, fromNow, utcnow) ==
    LET Points(readings_list) ==
            LET anomaly_readings ==
                    SelectSeq(readings_list, LAMBDA r : IsAnomalyReading(r, sensor))
            IN  IF \A k \in 1..Len(anomaly_readings) :
                      HasKey(anomaly_readings[k].sensorData, sensor)
                THEN [status_code |-> 200,
                      body |-> [k \in 1..Len(anomaly_readings) |->
                                  [timestamp |-> anomaly_readings[k].timestamp,
                                   value |-> DictGet(anomaly_readings[k].sensorData,
                                                     sensor)]]]
                ELSE [status_code |-> 500, body |-> <<>>]
        Answer(a) ==
            LET points == IF a.status_code = 200 THEN Points(a.body)
                          ELSE [status_code |-> a.status_code, body |-> <<>>]
            IN  [status_code |-> points.status_code, filter_query |-> a.filter_query,
                 fetched |-> a.fetched, body |-> points.body]
    IN  {Answer(a) : a \in get_node_readings(node_id, range, sensor, NoneTime,
                                             NoneTime, fromNow, utcnow)}

\* GET /api/nodes/{node_id}/anomalies
CallAnomalies(node_id, sensor, range, fromNow, utcnow) ==
    /\ apc = "idle"
    /\ request' = [endpoint |-> "get_node_anomalies", node_id |-> node_id,
                   range |-> range, sensor |-> sensor, start_time |-> NoneTime,
                   end_time |-> NoneTime, fromNow |-> fromNow, utcnow |-> utcnow]
    /\ \E answer \in get_node_anomalies(node_id, sensor, range, fromNow, utcnow) :
          /\ filter_query' = answer.filter_query
          /\ response' = [status_code |-> answer.status_code,
                          fetched |-> answer.fetched, body |-> answer.body]
    /\ apc' = "returned"
    /\ UNCHANGED <<storeVars, driverVars, loopVars, evalVars>>

\* {"sensorData.<sensor_name>": {"$exists": True, "$ne": None}}
SensorDocs(sensor_name) ==
    {i \in Ids : /\ HasKey(GetSensorData(store[i]), sensor_name)
                 /\ DictGet(GetSensorData(store[i]), sensor_name) # None}

\* The documents of the $match stage
PivotMatch(sensor_name, range, fromNow, utcnow) ==
    IF range # "all"
    THEN LET cond == get_time_range_filter(LatestTimestamp(SensorDocs(sensor_name)),
                                           range, fromNow, utcnow)
         IN  {i \in SensorDocs(sensor_name) : MatchRange(store[i].timestamp, cond)}
    ELSE SensorDocs(sensor_name)

PivotRowNullFilled(ts, S, sensor_name) ==
    LET group == {i \in S : store[i].timestamp = ts}
        Last(node) == CHOOSE i \in group :
                          /\ store[i].nodeId = node
                          /\ \A j \in group : store[j].nodeId = node => j <= i
    IN  [c \in {store[i].nodeId : i \in S} \cup {"timestamp"} |->
            IF c = "timestamp" THEN ts
            ELSE IF \E i \in group : store[i].nodeId = c
            THEN DictGet(GetSensorData(store[Last(c)]), sensor_name)
            ELSE None]

\* $group by timestamp, $arrayToObject of the pushed {node, value} pairs (of
\* two pairs of one node the later stays) and $mergeObjects with
\* {"timestamp": "$_id"}: the row of the timestamp ts.
PivotRow(ts, S, sensor_name) ==
    LET group == {i \in S : store[i].timestamp = ts}
        Last(node) == CHOOSE i \in group :
                          /\ store[i].nodeId = node
                          /\ \A j \in group : store[j].nodeId = node => j <= i
    IN  [c \in {store[i].nodeId : i \in group} \cup {"timestamp"} |->
            IF c = "timestamp" THEN ts
            ELSE DictGet(GetSensorData(store[Last(c)]), sensor_name)]

\* {"$sort": {"timestamp": 1}} and to_list(to_list_length) on the rows of the
\* timestamps T
SortedStamps(T) ==
    LET n == Cardinality(T)
        q == CHOOSE f \in [1..n -> T] :
                \A i, j \in 1..n : i < j => (f[i] # f[j] /\ TsLeq(f[i], f[j]))
    IN  SubSeq(q, 1, IF n < to_list_length THEN n ELSE to_list_length)

\* get_data_for_sensor
get_data_for_sensor(sensor_name, range, fromNow, utcnow) ==
    IF range # "all" /\ SensorDocs(sensor_name) = {}
    THEN <<>>
    ELSE LET S == PivotMatch(sensor_name, range, fromNow, utcnow)
             stamps == SortedStamps({store[i].timestamp : i \in S})
         IN  [k \in 1..Len(stamps) |-> PivotRow(stamps[k], S, sensor_name)]

\* GET /api/data/sensor/{sensor_name}
CallSensorData(sensor_name, range, fromNow, utcnow) ==
    /\ apc = "idle"
    /\ request' = [endpoint |-> "get_data_for_sensor", sensor_name |-> sensor_name,
                   range |-> range, fromNow |-> fromNow, utcnow |-> utcnow]
    /\ response' = [status_code |-> 200,
                    body |-> get_data_for_sensor(sensor_name, range, fromNow, utcnow)]
    /\ apc' = "returned"
    /\ UNCHANGED <<filter_query, storeVars, driverVars, loopVars, evalVars>>

\* A call of get_time_range_filter alone.
CallRangeFilter(latest_ts_raw, range_type, use_current_time, utcnow) ==
    /\ apc = "idle"
    /\ request' = [endpoint |-> "get_time_range_filter",
                   latest_ts_raw |-> latest_ts_raw, range_type |-> range_type,
                   use_current_time |-> use_current_time, utcnow |-> utcnow]
    /\ filter_query' = [timestamp |->
            get_time_range_filter(latest_ts_raw, range_type, use_current_time, utcnow)]
    /\ apc' = "returned"
    /\ UNCHANGED <<response, storeVars, driverVars, loopVars, evalVars>>

\* The range names of the endpoints' enum, "all" apart.
RangeNames == {"10m", "30m", "1h", "6h", "24h", "7d"}

\* Names outside the enum: Query(enum = ...) documents the values and does
\* not validate them.
UnknownRangeNames == {"1y", ""}

\* 2024-01-09T00:05:07, the second of the latest sample of the model.
LatestSecond == 8 * 86400 + 5 * 60 + 7

\* The ISO-8601 strings of an instant that writers store: to the second or
\* with a fraction of six (Python isoformat) or three (JavaScript
\* toISOString) digits, without a zone, with Z or with +00:00.
IsoForms(s, fraction) ==
    LET base == strftime(Datetime(s, 0))
        zones == {<<>>, <<"Z">>, <<"+", "0", "0", ":", "0", "0">>}
    IN  {IsoString(base \o f \o z) : f \in fraction, z \in zones}

NoFraction == {<<>>}

HalfSecond == {<<".", "5", "0", "0", "0", "0", "0">>, <<".", "5", "0", "0">>}

\* Raw timestamps of a latest sample, in both encodings.
LatestRaws ==
    {Datetime(LatestSecond, 0), Datetime(LatestSecond, 500000)}
    \cup IsoForms(LatestSecond, NoFraction \cup HalfSecond)

\* Values of the wall clock, after the latest sample.
ClockValues ==
    {Datetime(LatestSecond + 3, 0), Datetime(LatestSecond + 3, 250000),
     Datetime(LatestSecond + 86400, 999999)}

----------------------------------------------------------------------------
(* Initial states and specifications *)

InitDrivers ==
    /\ pc = [p \in Drivers |-> "idle"]
    /\ run = [p \in Drivers |-> 0]
    /\ documents = [p \in Drivers |-> <<>>]
    /\ bulk_operations = [p \in Drivers |-> <<>>]
    /\ opIdx = [p \in Drivers |-> 0]
    /\ modified = [p \in Drivers |-> 0]
    /\ documents_processed = [p \in Drivers |-> 0]
    /\ failed = [p \in Drivers |-> FALSE]
    /\ exit_status = [p \in Drivers |-> 0]
    /\ untaggedAtStart = [p \in Drivers |-> 0]

InitLoop ==
    /\ lpc = "while"
    /\ running = TRUE
    /\ batch = <<>>
    /\ insIdx = 0
    /\ slice = 0
    /\ ticks = 0
    /\ connOpen = TRUE
    /\ sigSeen = FALSE
    /\ ticksAfterSignal = 0
    /\ slicesAfterSignal = 0

InitInlineIdle ==
    /\ inline_anomalies = <<>>
    /\ ipc = "returned"

InitEvalIdle ==
    /\ sensor_data = <<>>
    /\ anomalies = <<>>
    /\ epc = "returned"
    /\ InitInlineIdle

\* No request has reached the API.
InitApiIdle ==
    /\ request = [endpoint |-> "none"]
    /\ filter_query = <<>>
    /\ response = [status_code |-> 0]
    /\ apc = "idle"

InitStoreEmpty ==
    /\ store = <<>>
    /\ createdBy = <<>>
    /\ updates = <<>>
    /\ seeded = 0

Init == InitStoreEmpty /\ InitDrivers /\ InitLoop /\ InitEvalIdle /\ InitApiIdle

\* In the specifications with several processes a driver process runs the
\* script once: a second run is the run of another process.
Once(p) == run[p] = 0

Start(p) == Once(p) /\ DriverStart(p)

StartFail(p) == Once(p) /\ ConnectFail(p)

\* A tick starts only below the bound c.
TickBelow(c) == (lpc = "while" /\ running) => ticks < c

\* The whole subsystem on an empty collection: the seeders, a batch driver,
\* the continuous loop and its stop signal, with their I/O failures.
SysSeed == seeded < MaxSysSeeded /\ SeederInsert

SysTick == TickBelow(MaxTicks) /\ LoopTest

Next ==
    \/ SysSeed
    \/ Start(1) \/ StartFail(1) \/ Fetch(1) \/ FetchFail(1)
    \/ BulkWriteOne(1) \/ BulkWriteFail(1)
    \/ SysTick \/ Build \/ InsertOne \/ InsertFail \/ SleepCheck \/ SleepSlice
    \/ Signal

Spec == Init /\ [][Next]_vars

\* The seeders and two batch drivers at the same time.
BatchSeed == seeded < MaxSeeded /\ SeederInsert

NextBatch ==
    \/ BatchSeed
    \/ \E p \in Drivers :
          \/ Start(p) \/ StartFail(p) \/ Fetch(p) \/ FetchFail(p)
          \/ BulkWriteOne(p) \/ BulkWriteFail(p)

SpecBatch == Init /\ [][NextBatch]_vars

\* The continuous loop alone; the interpreter runs the loop's next statement.
LoopTick == TickBelow(MaxLoopTicks) /\ LoopTest

LoopAlone == LoopTick \/ Build \/ InsertOne \/ InsertFail \/ SleepCheck \/ SleepSlice

NextLoop == LoopAlone \/ Signal

SpecLoop == Init /\ [][NextLoop]_vars /\ WF_vars(LoopAlone)

\* Documents an initial collection may hold: untagged readings, readings
\* tagged by a tagger, and readings of an older deployment with the anomaly
\* flag alone.
InitDocs ==
    {SeedDoc("node-001", 0, sd) : sd \in SeedData}
    \cup {LoopDoc("node-001", 0, <<Item("pH", Float(950))>>)}
    \cup {ApplySet(SeedDoc("node-001", 0, <<Item("pH", Float(700))>>), [anomaly |-> 1])}

\* One batch driver run again and again on any collection, with no insert
\* and no I/O failure; the interpreter runs the script's next statement.
InitSolo ==
    /\ store \in UNION {[1..n -> InitDocs] : n \in 0..MaxInitDocs}
    /\ createdBy = [i \in 1..Len(store) |-> "seed"]
    /\ updates = [i \in 1..Len(store) |-> 0]
    /\ seeded = 0
    /\ InitDrivers /\ InitLoop /\ InitEvalIdle /\ InitApiIdle

Rerun == run[1] < MaxRuns /\ DriverStart(1)

NextSolo == Rerun \/ Fetch(1) \/ BulkWriteOne(1)

SpecSolo == InitSolo /\ [][NextSolo]_vars /\ WF_vars(NextSolo)

\* check_for_anomaly applied to every dict of the bounded inputs.
InitEval ==
    /\ sensor_data \in EvalInputs
    /\ anomalies = <<>>
    /\ epc = "call"
    /\ InitInlineIdle
    /\ InitStoreEmpty /\ InitDrivers /\ InitLoop /\ InitApiIdle

SpecEval == InitEval /\ [][Evaluate]_vars

\* get_time_range_filter applied to every range name, anchor policy, encoding
\* of the latest sample and clock value of the bounded inputs.
NextRange ==
    \E latest_ts_raw \in LatestRaws, range_type \in RangeNames \cup UnknownRangeNames,
       use_current_time \in BOOLEAN, utcnow \in ClockValues :
        CallRangeFilter(latest_ts_raw, range_type, use_current_time, utcnow)

SpecRange == Init /\ [][NextRange]_vars

\* The seconds of the readings of a window of the model: the latest sample,
\* the sample ten minutes before it and the one a second earlier.
WindowSeconds == {LatestSecond - 601, LatestSecond - 600, LatestSecond}

\* The timestamps of a collection of datetimes (the store keeps
\* milliseconds) and of a collection of strings.
DatetimeStamps == {Datetime(t, u) : t \in WindowSeconds, u \in {0, 500000}}

StringStamps ==
    LET zones == {<<>>, <<"Z">>}
        fractions == {<<>>, <<".", "5", "0", "0", "0", "0", "0">>}
    IN  {IsoString(strftime(Datetime(t, 0)) \o f \o z) :
            t \in WindowSeconds, f \in fractions, z \in zones}

\* The readings of one node with the timestamps stamps.
WindowDocs(stamps) ==
    {SeedDoc("node-A", ts, <<Item("pH", Float(700))>>) : ts \in stamps}

\* A collection of at most n documents of the set docs, before any request.
InitCollection(docs, n) ==
    /\ store \in UNION {[1..k -> docs] : k \in 0..n}
    /\ createdBy = [i \in 1..Len(store) |-> "seed"]
    /\ updates = [i \in 1..Len(store) |-> 0]
    /\ seeded = 0
    /\ InitDrivers /\ InitLoop /\ InitEvalIdle /\ InitApiIdle

\* The readings and anomalies endpoints on a collection of one encoding, for
\* a node with readings and a node without any.
InitWindow ==
    \/ InitCollection(WindowDocs(DatetimeStamps), MaxWindowDocs)
    \/ InitCollection(WindowDocs(StringStamps), MaxWindowDocs)

WindowTimes(t) == {NoneTime, Datetime(t, 0)}

WindowReadings ==
    \E node_id \in {"node-A", "node-Z"}, range \in {"10m", "all", "1y"},
       start_time \in WindowTimes(LatestSecond - 600),
       end_time \in WindowTimes(LatestSecond),
       fromNow \in BOOLEAN,
       utcnow \in {Datetime(LatestSecond + 3, 250000),
                   Datetime(LatestSecond + 86400, 999999)} :
        \E sensor \in {"", "temperature"} :
            CallReadings(node_id, range, sensor, start_time, end_time, fromNow, utcnow)

WindowAnomalies ==
    \E node_id \in {"node-A", "node-Z"}, range \in {"10m", "all"},
       fromNow \in BOOLEAN,
       utcnow \in {Datetime(LatestSecond + 3, 250000)} :
        CallAnomalies(node_id, "pH", range, fromNow, utcnow)

NextWindow == WindowReadings \/ WindowAnomalies

SpecWindow == InitWindow /\ [][NextWindow]_vars

\* The sensorData mappings of the readings of a node: empty, a value inside
\* its range, a value above it, a null, another sensor, and two sensors of
\* which one is null.
ReadingData ==
    { <<>>,
      <<Item("pH", Float(700))>>,
      <<Item("pH", Float(950))>>,
      <<Item("pH", None)>>,
      <<Item("temperature", Float(2200))>>,
      <<Item("temperature", None), Item("pH", Float(700))>> }

ReadingStamps == {Datetime(LatestSecond - 5, 0), Datetime(LatestSecond, 0)}

ReadingDocs ==
    {SeedDoc("node-A", ts, sd) : ts \in ReadingStamps, sd \in ReadingData}

\* The readings endpoint on the readings of one node, with and without a
\* sensor.
NextReadings ==
    \E sensor \in {"", "pH"}, range \in {"all", "10m"} :
        CallReadings("node-A", range, sensor, NoneTime, NoneTime, FALSE,
                     Datetime(LatestSecond + 3, 250000))

SpecReadings == InitCollection(ReadingDocs, MaxReadingDocs) /\ [][NextReadings]_vars

\* The readings of two nodes at three instants, five seconds apart: a value
\* of the sensor, another value, a null, and a reading of another sensor.
PivotData ==
    { <<Item("temperature", Float(2010))>>,
      <<Item("temperature", Float(2130))>>,
      <<Item("temperature", None)>>,
      <<Item("pH", Float(700))>> }

PivotStamps ==
    {Datetime(LatestSecond - 605, 0), Datetime(LatestSecond - 5, 0),
     Datetime(LatestSecond, 0)}

PivotDocs ==
    {SeedDoc(node, ts, sd) :
        node \in {"node-A", "node-B"}, ts \in PivotStamps, sd \in PivotData}

\* The pivot endpoint for one sensor.
NextPivot ==
    \E range \in {"all", "10m"} :
        CallSensorData("temperature", range, FALSE, Datetime(LatestSecond + 3, 250000))

SpecPivot == InitCollection(PivotDocs, MaxPivotDocs) /\ [][NextPivot]_vars

\* The readings of a node as the writers leave them: untagged (a seeder),
\* tagged by a tagger (anomalies and anomaly of UpdateFields, the fields
\* LoopDoc writes too), and with the anomaly flag alone (an older
\* deployment).
AnomalyData ==
    { <<Item("pH", Float(700))>>,
      <<Item("pH", Float(950))>>,
      <<Item("pH", Float(700)), Item("temperature", Float(4000))>> }

\* The latest sample and one more than ten minutes older.
AnomalyStamps == {Datetime(LatestSecond - 605, 0), Datetime(LatestSecond, 0)}

AnomalyDocs ==
    LET plain == {SeedDoc("node-A", ts, sd) : ts \in AnomalyStamps, sd \in AnomalyData}
    IN  plain
        \cup {ApplySet(doc, UpdateFields(check_for_anomaly(doc.sensorData))) :
                 doc \in plain}
        \cup {ApplySet(doc, [anomaly |-> 1]) : doc \in plain}

\* The anomalies endpoint on the readings of one node, for the last ten
\* minutes before the latest sample.
NextAnomalies ==
    \E sensor \in {"pH", "temperature"} :
        CallAnomalies("node-A", sensor, "10m", FALSE, Datetime(LatestSecond + 3, 250000))

SpecAnomalies == InitCollection(AnomalyDocs, MaxAnomalyDocs) /\ [][NextAnomalies]_vars

\* The two evaluators applied to the same dict, in either order.
InitTaggers ==
    /\ sensor_data \in EvalInputs
    /\ anomalies = <<>>
    /\ epc = "call"
    /\ inline_anomalies = <<>>
    /\ ipc = "call"
    /\ InitStoreEmpty /\ InitDrivers /\ InitLoop /\ InitApiIdle

NextTaggers == Evaluate \/ EvaluateInline

SpecTaggers == InitTaggers /\ [][NextTaggers]_vars

----------------------------------------------------------------------------
(* Properties *)

Range(seq) == {seq[i] : i \in 1..Len(seq)}

Tagged(doc) == HasField(doc, "anomaly") /\ HasField(doc, "anomalies")

\* C1: once a first run of the batch driver has ended, with no insert since, a
\* second run fetches no document (it never reaches bulk_write), reports
\* zero documents processed, and no field of any document changes any more.
C1_SecondRunIdle ==
    /\ [](run[1] >= 2 =>
            /\ documents[1] = <<>>
            /\ pc[1] # "write"
            /\ documents_processed[1] = 0)
    /\ [][(run[1] >= 2 \/ (run[1] = 1 /\ pc[1] = "done")) => store' = store]_vars

\* A second run has ended on a collection whose first run tagged three
\* documents.
C1_Witness ==
    /\ run[1] = 2
    /\ pc[1] = "done"
    /\ Cardinality({i \in Ids : updates[i] = 1}) = 3

\* C2: no document receives more than one update operation of the batch
\* drivers.
C2_AtMostOneUpdate == \A i \in Ids : updates[i] <= 1

\* C3: a reading has neither anomaly field, or both, and then anomaly is 1
\* exactly when anomalies is non-empty, and 0 otherwise.
C3_FlagsConsistent ==
    \A i \in Ids :
        LET doc == store[i] IN
        \/ ~HasField(doc, "anomaly") /\ ~HasField(doc, "anomalies")
        \/ /\ Tagged(doc)
           /\ doc.anomaly \in {0, 1}
           /\ doc.anomaly = 1 <=> Len(doc.anomalies) > 0

\* The driver tagged a seeded reading as anomalous and the loop inserted a
\* reading without anomalies.
C3_Witness ==
    \E i, j \in Ids :
        /\ createdBy[i] = "seed" /\ updates[i] = 1 /\ Tagged(store[i])
        /\ store[i].anomaly = 1
        /\ createdBy[j] = "loop" /\ store[j].anomaly = 0

\* C4: no step removes a document or changes or removes a field of one, save
\* that it may add anomalies and anomaly; a document changes only in a step
\* of bulk_write of a driver that holds it in its fetched batch.
C4_Frame ==
    [][/\ Len(store') >= Len(store)
       /\ \A i \in Ids :
            /\ DOMAIN store[i] \subseteq DOMAIN store'[i]
            /\ DOMAIN store'[i] \subseteq DOMAIN store[i] \cup {"anomalies", "anomaly"}
            /\ \A f \in DOMAIN store[i] \ {"anomalies", "anomaly"} :
                  store'[i][f] = store[i][f]
            /\ store'[i] # store[i] =>
                  \E p \in Drivers :
                      /\ pc[p] = "write"
                      /\ opIdx'[p] = opIdx[p] + 1
                      /\ i \in Range(documents[p])]_vars

\* The driver has tagged a seeded reading while a reading of the loop is in
\* the collection.
C4_Witness ==
    \E i, j \in Ids :
        /\ createdBy[i] = "seed" /\ updates[i] = 1 /\ Tagged(store[i])
        /\ createdBy[j] = "loop"

\* C5: the batch driver terminates; it goes on after a batch only when the
\* batch was full and ends only after a batch that was empty or short; when it
\* has ended no reading lacks the anomaly field and documents_processed is the
\* number of readings that were untagged when the run started.
C5_RunCompletes ==
    /\ [](pc[1] = "done" =>
            /\ Len(documents[1]) < batch_size
            /\ Untagged = {}
            /\ documents_processed[1] = untaggedAtStart[1])
    /\ []((pc[1] = "fetch" /\ documents[1] # <<>>) =>
            Len(documents[1]) = batch_size)
    /\ (pc[1] \in {"fetch", "write"} ~> pc[1] = "done")

\* A first run has ended after a full batch and a short one.
C5_Witness ==
    /\ pc[1] = "done"
    /\ run[1] = 1
    /\ documents_processed[1] = batch_size + 1
    /\ Len(documents[1]) = 1

\* C6: a run in which a fetch or a bulk update failed does not end as a
\* normal completion: its exit status is not zero.
C6_FailureSurfaced ==
    \A p \in Drivers : (pc[p] = "done" /\ failed[p]) => exit_status[p] # 0

\* C7: check_for_anomaly returns exactly the keys that have a rule and a
\* value that is not None, is a number, and lies below the rule's min or above
\* its max, each of them once.
C7_Flagged(item) ==
    /\ item.k \in DOMAIN THRESHOLDS
    /\ item.v.kind # "none"
    /\ ToFloat(item.v).ok
    /\ \/ ToFloat(item.v).num < THRESHOLDS[item.k].min
       \/ ToFloat(item.v).num > THRESHOLDS[item.k].max

C7_ExactKeys ==
    epc = "returned" =>
        /\ Range(anomalies) = {item.k : item \in {x \in Range(sensor_data) : C7_Flagged(x)}}
        /\ Cardinality(Range(anomalies)) = Len(anomalies)

\* A key with a value that is no number comes before a key above its max.
C7_Witness ==
    /\ epc = "returned"
    /\ sensor_data = <<Item("temperature", Str("abc")), Item("pH", Float(801))>>
    /\ anomalies = <<"pH">>

\* The documents of the tick t in the collection.
TickDocs(t) == {i \in Ids : createdBy[i] = "loop" /\ store[i].timestamp = t}

\* C8: at most one insert_many ends after the stop signal, and every tick
\* whose insert_many has ended has all its readings in the collection, one per
\* target, or none.
C8_WholeTicks ==
    /\ ticksAfterSignal <= 1
    /\ \A t \in 1..ticks :
          (lpc \in {"build", "insert"} /\ t = ticks)
          \/ Cardinality(TickDocs(t)) \in {0, Len(targets)}

\* C9: after the stop signal the loop reaches Stopped; at most one sleep slice
\* ends after the signal; in Stopped the client is closed; and Stopped is
\* left by no step, nor is a document inserted or a tick started there.
C9_Lifecycle ==
    /\ (sigSeen ~> lpc = "stopped")
    /\ [](slicesAfterSignal <= 1)
    /\ [](lpc = "stopped" => ~connOpen /\ ~running)
    /\ [][lpc = "stopped" =>
            lpc' = "stopped" /\ store' = store /\ ticks' = ticks]_vars

\* The loop has stopped after a signal that a sleep slice outlasted.
C9_Witness ==
    /\ lpc = "stopped"
    /\ slicesAfterSignal = 1
    /\ ticks = 1
    /\ store # <<>>

\* C10: every reading the loop inserted has both anomaly fields, no driver
\* holds one in its fetched batch and none received an update operation.
C10_Disjoint ==
    /\ \A i \in Ids :
          createdBy[i] = "loop" => Tagged(store[i]) /\ updates[i] = 0
    /\ \A p \in Drivers :
          \A i \in Range(documents[p]) : createdBy[i] # "loop"

\* The driver fetched and tagged a seeded reading that was inserted after a
\* reading of the loop.
C10_Witness ==
    \E i, j \in Ids :
        /\ i < j
        /\ createdBy[i] = "loop"
        /\ createdBy[j] = "seed" /\ updates[j] = 1

\* Two datetimes are the same instant.
SameInstant(a, b) == a.sec = b.sec /\ a.us = b.us

\* hi - lo - timedelta(seconds = d), in microseconds.
ExcessMicros(hi, lo, d) == (hi.sec - lo.sec - d) * 1000000 + (hi.us - lo.us)

\* The durations the range names stand for, in seconds.
C11_Duration(range_type) ==
    IF range_type \in RangeNames
    THEN [r \in RangeNames |->
            CASE r = "10m" -> 10 * 60 [] r = "30m" -> 30 * 60 [] r = "1h" -> 60 * 60
              [] r = "6h" -> 6 * 60 * 60 [] r = "24h" -> 24 * 60 * 60
              [] r = "7d" -> 7 * 24 * 60 * 60][range_type]
    ELSE 10 * 60

C11_Anchor ==
    IF request.use_current_time THEN request.utcnow
    ELSE parse_timestamp(request.latest_ts_raw)

C11_Returned == apc = "returned" /\ request.endpoint = "get_time_range_filter"

\* C11 as stated: the end bound is the anchor and end - start is the named
\* duration exactly, in both encodings.
C11_ExactWindow ==
    C11_Returned =>
        LET lo == parse_timestamp(filter_query.timestamp.gte)
            hi == parse_timestamp(filter_query.timestamp.lte)
        IN  /\ SameInstant(hi, C11_Anchor)
            /\ ExcessMicros(hi, lo, C11_Duration(request.range_type)) = 0

\* C11 (amended): with a datetime latest sample the end bound is the anchor
\* and end - start is the named duration exactly; with a string latest sample
\* the bounds are strings, the start bound is anchor - duration cut to the
\* whole second and the end bound is the raw latest sample (anchor: latest
\* sample) or the second of the clock followed by .999999Z (anchor: clock), so
\* that end - start is the duration in whole seconds; a name outside the six
\* has the duration of 10m.
C11_WindowResolved ==
    C11_Returned =>
        LET f == filter_query.timestamp
            lo == parse_timestamp(f.gte)
            hi == parse_timestamp(f.lte)
            d == C11_Duration(request.range_type)
        IN  /\ DOMAIN f = {"gte", "lte"}
            /\ hi.sec = C11_Anchor.sec
            /\ hi.sec - lo.sec = d
            /\ IF IsStr(request.latest_ts_raw)
               THEN /\ IsStr(f.gte) /\ IsStr(f.lte)
                    /\ f.gte.chars = strftime(MinusSeconds(C11_Anchor, d))
                    /\ lo.us = 0
                    /\ IF request.use_current_time
                       THEN hi.us = 999999
                       ELSE f.lte = request.latest_ts_raw
               ELSE /\ ~IsStr(f.gte) /\ ~IsStr(f.lte)
                    /\ SameInstant(hi, C11_Anchor)
                    /\ ExcessMicros(hi, lo, d) = 0

\* A name outside the enum was resolved for a string latest sample with a
\* fraction, anchored at the clock.
C11_Witness ==
    /\ C11_Returned
    /\ request.range_type = "1y"
    /\ request.use_current_time
    /\ request.latest_ts_raw \in IsoForms(LatestSecond, HalfSecond)
    /\ request.utcnow.us = 250000

ReadingsReturned == apc = "returned" /\ request.endpoint = "get_node_readings"

AnomaliesReturned == apc = "returned" /\ request.endpoint = "get_node_anomalies"

\* The bound is the second of t, as a lower bound (nothing after the second)
\* and as an upper bound (the last microsecond of the second).
LowerBoundOf(bound, t) ==
    parse_timestamp(bound).sec = t.sec /\ parse_timestamp(bound).us = 0

UpperBoundOf(bound, t) ==
    parse_timestamp(bound).sec = t.sec /\ parse_timestamp(bound).us = 999999

\* C12: with start_time and end_time the timestamp filter has both sides,
\* from the second of start_time to the end of the second of end_time,
\* whatever range and fromNow are; with one of them it has that side alone;
\* with neither and range "all" there is no timestamp filter; otherwise it is
\* the window of the relative range at its anchor.
C12_Override ==
    (ReadingsReturned /\ response.status_code # 404) =>
        LET start_time == request.start_time
            end_time == request.end_time
            cond == IF "timestamp" \in DOMAIN filter_query
                    THEN filter_query.timestamp ELSE <<>>
            anchor == IF request.fromNow THEN request.utcnow
                      ELSE parse_timestamp(LatestTimestamp(NodeDocs(request.node_id)))
        IN  IF IsDatetime(start_time) /\ IsDatetime(end_time)
            THEN /\ DOMAIN cond = {"gte", "lte"}
                 /\ LowerBoundOf(cond.gte, start_time)
                 /\ UpperBoundOf(cond.lte, end_time)
            ELSE IF IsDatetime(start_time)
            THEN DOMAIN cond = {"gte"} /\ LowerBoundOf(cond.gte, start_time)
            ELSE IF IsDatetime(end_time)
            THEN DOMAIN cond = {"lte"} /\ UpperBoundOf(cond.lte, end_time)
            ELSE IF request.range = "all"
            THEN "timestamp" \notin DOMAIN filter_query
            ELSE /\ DOMAIN cond = {"gte", "lte"}
                 /\ parse_timestamp(cond.lte).sec = anchor.sec
                 /\ anchor.sec - parse_timestamp(cond.gte).sec
                       = C11_Duration(request.range)

\* Both bounds were given together with a relative range anchored at the
\* clock, and the answer holds the two readings of the interval.
C12_Witness ==
    /\ ReadingsReturned
    /\ IsDatetime(request.start_time) /\ IsDatetime(request.end_time)
    /\ request.range = "10m" /\ request.fromNow
    /\ request.utcnow.sec = LatestSecond + 86400
    /\ response.status_code = 200
    /\ Len(response.body) = 2

\* C13: every bound of a timestamp filter has the encoding of the timestamps
\* of the collection.
C13_SameEncoding ==
    (apc = "returned" /\ "timestamp" \in DOMAIN filter_query) =>
        \A f \in DOMAIN filter_query.timestamp :
            \A i \in Ids : store[i].timestamp.kind = filter_query.timestamp[f].kind

\* C14: on a collection of strings, a reading of the node is selected by the
\* timestamp filter exactly when its instant lies between the instants of
\* the bounds of the filter, the bounding seconds included.
C14_Within(ts, cond) ==
    LET t == parse_timestamp(ts)
        Before(a, b) == a.sec < b.sec \/ (a.sec = b.sec /\ a.us <= b.us)
    IN  /\ "gte" \in DOMAIN cond => Before(parse_timestamp(cond.gte), t)
        /\ "lte" \in DOMAIN cond => Before(t, parse_timestamp(cond.lte))

C14_InclusiveBounds ==
    (ReadingsReturned /\ "timestamp" \in DOMAIN filter_query) =>
        \A i \in NodeDocs(request.node_id) :
            IsStr(store[i].timestamp) =>
                (MatchRange(store[i].timestamp, filter_query.timestamp)
                    <=> C14_Within(store[i].timestamp, filter_query.timestamp))

\* C15: for a node without any reading the readings and the anomalies
\* endpoints answer 404, with no list, whatever the other parameters are.
C15_UnknownNode ==
    ((ReadingsReturned \/ AnomaliesReturned)
        /\ \A i \in Ids : store[i].nodeId # request.node_id)
    => (response.status_code = 404 /\ response.body = <<>>)

\* A node without readings was asked for with both bounds, on a collection
\* that holds readings of another node.
C15_Witness ==
    /\ ReadingsReturned
    /\ request.node_id = "node-Z"
    /\ IsDatetime(request.start_time) /\ IsDatetime(request.end_time)
    /\ Len(store) = 2
    /\ response.status_code = 404

\* The node of the request has readings and none of them passes the
\* timestamp filter with a value for the requested sensor.
C16_EmptyWindow ==
    /\ ReadingsReturned
    /\ NodeDocs(request.node_id) # {}
    /\ \A i \in NodeDocs(request.node_id) :
          \/ ~MatchFilter(store[i], filter_query)
          \/ IF request.sensor = "" THEN GetSensorData(store[i]) = <<>>
             ELSE DictGet(GetSensorData(store[i]), request.sensor) = None

\* C16 as stated: a known node with an empty window gets the NoSuchSubject
\* (404) outcome.
C16_EmptyIsNoSuchSubject == C16_EmptyWindow => response.status_code = 404

\* C16 (amended): a known node with an empty window gets an empty list with
\* status 200, and no request for a known node is answered 404.
C16_EmptyIsEmptyList ==
    /\ C16_EmptyWindow => (response.status_code = 200 /\ response.body = <<>>)
    /\ (ReadingsReturned /\ NodeDocs(request.node_id) # {})
          => response.status_code # 404

\* The node has two readings and the window of the last ten minutes of the
\* clock, a day later, holds none.
C16_Witness ==
    /\ C16_EmptyWindow
    /\ Len(store) = 2
    /\ request.start_time = NoneTime /\ request.end_time = NoneTime
    /\ request.range = "10m" /\ request.fromNow
    /\ request.sensor = ""
    /\ response.body = <<>>

\* The reading has a value for the sensor (any value, with no sensor asked).
C17_HasValue(doc, sensor) ==
    IF sensor = "" THEN GetSensorData(doc) # <<>>
    ELSE /\ HasKey(GetSensorData(doc), sensor)
         /\ DictGet(GetSensorData(doc), sensor) # None

\* C17: the answer of the readings endpoint is the list of the fetched
\* readings that have a value for the requested sensor (with no sensor: whose
\* sensorData is not empty), in the order fetched, which is ascending in
\* timestamp; with a sensor each returned sensorData holds that key alone,
\* with a number.
C17_PostFilter ==
    (ReadingsReturned /\ response.status_code # 404) =>
        LET sensor == request.sensor
            expected == SelectSeq(response.fetched,
                                  LAMBDA i : C17_HasValue(store[i], sensor))
            body == response.body
        IN  /\ response.status_code = 200
            /\ Len(body) = Len(expected)
            /\ \A k \in 1..Len(body) :
                  /\ body[k].timestamp = store[expected[k]].timestamp
                  /\ sensor # "" =>
                        /\ Len(body[k].sensorData) = 1
                        /\ body[k].sensorData[1].k = sensor
                        /\ body[k].sensorData[1].v.kind = "float"
            /\ \A j, k \in 1..Len(body) :
                  j < k => TsLeq(body[j].timestamp, body[k].timestamp)

\* The part of C17 about a requested sensor.
C17_WithSensor == (ReadingsReturned /\ request.sensor # "") => C17_PostFilter

PivotReturned == apc = "returned" /\ request.endpoint = "get_data_for_sensor"

\* The instant a is not after the instant b.
InstantLeq(a, b) == a.sec < b.sec \/ (a.sec = b.sec /\ a.us <= b.us)

\* The readings with a value of the requested sensor within the window of
\* the request.
C18_Window ==
    LET reporting == {i \in Ids : C17_HasValue(store[i], request.sensor_name)}
        anchor == IF request.fromNow THEN request.utcnow
                  ELSE store[CHOOSE i \in reporting : \A j \in reporting :
                          InstantLeq(store[j].timestamp, store[i].timestamp)].timestamp
        start == MinusSeconds(anchor, C11_Duration(request.range))
    IN  IF request.range = "all" THEN reporting
        ELSE {i \in reporting : /\ InstantLeq(start, store[i].timestamp)
                                /\ InstantLeq(store[i].timestamp, anchor)}

C18_Stamps == {store[i].timestamp : i \in C18_Window}

\* The rows are strictly ascending in timestamp, each one the row of a
\* timestamp of the window, with a column for each node that has a reading
\* of the sensor at that timestamp, holding a value that node has there, and
\* no other column.
C18_Rows ==
    LET body == response.body
    IN  /\ \A j, k \in 1..Len(body) :
              j < k => /\ body[j].timestamp # body[k].timestamp
                       /\ InstantLeq(body[j].timestamp, body[k].timestamp)
        /\ \A k \in 1..Len(body) :
              LET at == {i \in C18_Window : store[i].timestamp = body[k].timestamp}
              IN  /\ body[k].timestamp \in C18_Stamps
                  /\ DOMAIN body[k] = {store[i].nodeId : i \in at} \cup {"timestamp"}
                  /\ \A c \in DOMAIN body[k] \ {"timestamp"} :
                        \E i \in at :
                            /\ store[i].nodeId = c
                            /\ body[k][c] = DictGet(GetSensorData(store[i]),
                                                    request.sensor_name)

\* C18 as stated: one row for every distinct timestamp of the window.
C18_OneRowPerTimestamp ==
    PivotReturned =>
        /\ C18_Rows
        /\ Len(response.body) = Cardinality(C18_Stamps)

\* C18 (amended): the rows are those of the first to_list_length distinct
\* timestamps of the window, one row for each.
C18_FirstRows ==
    PivotReturned =>
        LET body == response.body
            n == Cardinality(C18_Stamps)
        IN  /\ C18_Rows
            /\ Len(body) = IF n < to_list_length THEN n ELSE to_list_length
            /\ \A ts \in C18_Stamps :
                  (\A k \in 1..Len(body) : body[k].timestamp # ts) =>
                      \A k \in 1..Len(body) : InstantLeq(body[k].timestamp, ts)

\* Two nodes have a value at one timestamp and one of them a value at a
\* later one: two rows, the first with both columns, the second with one.
C18_Witness ==
    /\ PivotReturned
    /\ Len(store) = 3
    /\ Len(response.body) = 2
    /\ DOMAIN response.body[1] = {"timestamp", "node-A", "node-B"}
    /\ response.body[1]["node-A"] = Float(2010)
    /\ response.body[1]["node-B"] = Float(2130)
    /\ DOMAIN response.body[2] = {"timestamp", "node-B"}

\* The reading has a value of the sensor and names the sensor in its
\* anomalies list or, the list being absent or empty, has the flag 1.
C19_Selected(doc, sensor) ==
    /\ C17_HasValue(doc, sensor)
    /\ IF HasField(doc, "anomalies") /\ Len(doc.anomalies) > 0
       THEN sensor \in Range(doc.anomalies)
       ELSE HasField(doc, "anomaly") /\ doc.anomaly = 1

\* The value of the sensor lies outside the range of its thresholds.
C19_OutOfRange(doc, sensor) ==
    /\ sensor \in DOMAIN THRESHOLDS
    /\ C17_HasValue(doc, sensor)
    /\ LET x == DictGet(GetSensorData(doc), sensor).num
       IN  x < THRESHOLDS[sensor].min \/ x > THRESHOLDS[sensor].max

\* The readings of the node within the window of the request.
C19_Window ==
    LET node == NodeDocs(request.node_id)
        anchor == IF request.fromNow THEN request.utcnow
                  ELSE store[CHOOSE i \in node : \A j \in node :
                          InstantLeq(store[j].timestamp, store[i].timestamp)].timestamp
        start == MinusSeconds(anchor, C11_Duration(request.range))
    IN  IF request.range = "all" THEN node
        ELSE {i \in node : /\ InstantLeq(start, store[i].timestamp)
                           /\ InstantLeq(store[i].timestamp, anchor)}

\* The answer lists, in ascending order, the timestamp and value of the
\* readings of ids that are selected, and of no other reading.
C19_PointsOf(ids) ==
    LET body == response.body
        sensor == request.sensor
    IN  /\ \A k \in 1..Len(body) :
              \E i \in ids :
                  /\ C19_Selected(store[i], sensor)
                  /\ body[k].timestamp = store[i].timestamp
                  /\ body[k].value = DictGet(GetSensorData(store[i]), sensor)
        /\ Len(body) = Cardinality({i \in ids : C19_Selected(store[i], sensor)})
        /\ \A j, k \in 1..Len(body) :
              j < k => InstantLeq(body[j].timestamp, body[k].timestamp)
        /\ \A i \in ids :
              Tagged(store[i]) =>
                  (C19_Selected(store[i], sensor) <=> C19_OutOfRange(store[i], sensor))

C20_TaggersAgree ==
    (epc = "returned" /\ ipc = "returned") =>
        /\ inline_anomalies = anomalies
        /\ LET inline == LoopDoc("node-A", 0, sensor_data)
               later == ApplySet(SeedDoc("node-A", 0, sensor_data),
                                 UpdateFields(anomalies))
           IN  inline = later

\* Both evaluators have returned for a dict with a value above its range
\* and a string that parses to a value above its range.
C20_Witness ==
    /\ epc = "returned" /\ ipc = "returned"
    /\ sensor_data = <<Item("temperature", Float(3501)), Item("pH", Str("9.5"))>>
    /\ inline_anomalies = <<"temperature", "pH">>

====
